---------------------------- MODULE Spec2Model ----------------------------
(***************************************************************************)
(* A model of follow_bluesky_users.py: authenticate, the two retry loops   *)
(* (resolve_handle, follow_user) and the batch loop of main.               *)
(*                                                                         *)
(* The program is single-threaded; pc is the place the one thread is at.   *)
(* Every HTTP exchange and every sleep is one step.  The remote API is the *)
(* environment: each response is drawn from a small set.                   *)
(***************************************************************************)
EXTENDS Naturals, Sequences, FiniteSets, TLC

\* ------------------------------------------------------------------ bounds
\* Longest input list.
MaxItems == 3
\* Most 429/401 responses the remote gives to one logical request.
MaxTransient == 2
\* Most sessions the remote issues in one run (the initial one included).
MaxAuth == 3
\* Longest input list of the runs checked for liveness.
MaxLiveItems == 2

\* ------------------------------------------------- configuration (lines 44-51)
REQUEST_DELAY == 1
\* 3000 in the source; scaled to 2 so that a list of MaxItems items crosses it.
REQUEST_LIMIT == 2
PAUSE_DURATION == 600
DOMAIN_SUFFIX == ".bsky.social"

\* ------------------------------------------------------------ value domains
\* The 'Handle' column values of the CSV.
SourceIds == {"alice", "bob"}
\* Python's None and a present value.
None == <<>>
Some(x) == <<x>>
\* The 'did' values a resolveHandle 200 body can carry; None: no 'did' field.
DidValues == {None, Some(""), Some("did:1"), Some("did:2")}
\* The 'did' of a createSession 200 body: the first session's, and a later one's.
FirstDids == {"did:me"}
OwnDids == {"did:me", "did:me2"}
\* accessJwt of the n-th session the remote issues.
Token(n) == "jwt" \o ToString(n)

\* The responses of com.atproto.identity.resolveHandle.
ResolveResponses ==
    {[status |-> 429, did |-> None], [status |-> 401, did |-> None],
     [status |-> 400, did |-> None]}
    \cup {[status |-> 200, did |-> d] : d \in DidValues}
\* The responses of com.atproto.repo.createRecord: status and body text.
FollowResponses ==
    {[status |-> 429, text |-> "RateLimitExceeded"],
     [status |-> 401, text |-> "ExpiredToken"],
     [status |-> 200, text |-> "{uri,cid}"],
     [status |-> 400, text |-> "InvalidRequest"]}
\* The statuses of com.atproto.server.createSession.
AuthStatuses == {200, 401, 500}

NoResponse == [status |-> 0, text |-> ""]
\* follow_payload is a local of follow_user: this is its value outside a call.
NoPayload == [repo |-> "", subject |-> ""]
NoRequest ==
    [op |-> "none", item |-> 0, Authorization |-> "", arg |-> "", repo |-> "",
     token |-> ""]

VARIABLES
    pc,              \* where the thread is
    csv,             \* the CSV file: [columns, rows]
    handles,         \* main: handles
    i,               \* main: i of enumerate(handles, start=1)
    bluesky_handle,  \* main: bluesky_handle
    headers,         \* main: headers, shared with both retry loops
    session_did,     \* main: session_did
    target_did,      \* main: target_did
    follow_payload,  \* follow_user: follow_payload, [repo, subject]
    follow_response, \* main: follow_response
    results,         \* main: results
    sink,            \* follow_results.csv: [written, rows]
    authN,           \* sessions the remote has issued
    live,            \* the session most recently issued: [token, did]
    resps,           \* responses answered to the current logical request
    sends,           \* requests sent by the current retry loop
    pauses,          \* PAUSE_DURATION sleeps of the current retry loop
    auths,           \* authenticate calls of the current retry loop
    lastRequest,     \* the request most recently sent; token: live.token then
    itemFollows,     \* createRecord requests sent for the current item
    lastSleep,       \* duration of the most recent time.sleep
    delays,          \* REQUEST_DELAY sleeps taken so far
    periodicLog,     \* the periodic pauses taken: [i, seconds]
    sincePause,      \* requests sent since the last periodic pause, up to REQUEST_LIMIT + 1
    followedDids     \* subjects of the follow writes answered 200 so far

vars == <<pc, csv, handles, i, bluesky_handle, headers, session_did, target_did,
          follow_payload, follow_response, results, sink, authN, live, resps, sends, pauses,
          auths, lastRequest, itemFollows, lastSleep, delays, periodicLog, sincePause,
          followedDids>>


\* ------------------------------------------------------------ pure helpers
\* Mutant: the derived handle is computed once and reused for later rows.
derive_Stale(handle) ==
    IF bluesky_handle = "" THEN handle \o DOMAIN_SUFFIX ELSE bluesky_handle

\* main, line 193: f"{handle}{DOMAIN_SUFFIX}"
derive(handle) == handle \o DOMAIN_SUFFIX

\* main, lines 170-173: the headers built from the initial session.
InitialHeaders(access_token) ==
    [Authorization |-> "Bearer " \o access_token, ContentType |-> "application/json"]

\* Mutant: the token of the new session is stored under the wrong key.
ReauthHeaders_WrongKey(hdrs, access_token) ==
    [hdrs EXCEPT !.ContentType = access_token]

\* Mutant: the token of the new session is not stored in the headers.
ReauthHeaders_Keep(hdrs, access_token) == hdrs

\* resolve_handle line 113, follow_user line 159:
\* headers['Authorization'], _ = authenticate(...)
ReauthHeaders(hdrs, access_token) ==
    [hdrs EXCEPT !.Authorization = access_token]

\* Mutant: a failed authentication returns instead of exiting.
authenticate_NoExit(status, did, n) ==
    IF status = 200
    THEN [exit |-> FALSE, access_token |-> Token(n + 1), user_did |-> did]
    ELSE [exit |-> FALSE, access_token |-> "", user_did |-> ""]

\* authenticate, lines 73-87: the (access_token, user_did) returned for a 200,
\* exit() for any other status.  n: the sessions issued before this call.
authenticate(status, did, n) ==
    IF status = 200
    THEN [exit |-> FALSE, access_token |-> Token(n + 1), user_did |-> did]
    ELSE [exit |-> TRUE, access_token |-> "", user_did |-> ""]

\* Mutant: the lookup gives up on a 429 instead of pausing and resending.
ResolveClass_GiveUp429(status) ==
    CASE status = 401 -> "reauth"
      [] status = 200 -> "return_did"
      [] OTHER        -> "return_none"

\* Mutant: every unexpected status is handled as an expired session.
ResolveClass_OtherReauth(status) ==
    CASE status = 429 -> "pause"
      [] status = 200 -> "return_did"
      [] OTHER        -> "reauth"

\* Mutant: a 401 is slept on like a rate limit instead of re-authenticating.
ResolveClass_Sleep401(status) ==
    CASE status = 429 -> "pause"
      [] status = 401 -> "pause"
      [] status = 200 -> "return_did"
      [] OTHER        -> "return_none"

\* resolve_handle, lines 106-122: what the loop does with a response.
ResolveClass(status) ==
    CASE status = 429 -> "pause"
      [] status = 401 -> "reauth"
      [] status = 200 -> "return_did"
      [] OTHER        -> "return_none"

\* Mutant: a write answered 200 is sent again after a pause.
FollowClass_Retry200(status) ==
    CASE status = 429 -> "pause"
      [] status = 200 -> "pause"
      [] status = 401 -> "reauth"
      [] OTHER        -> "return"

\* Mutant: a 401 is handed back to the caller.
FollowClass_Return401(status) ==
    CASE status = 429 -> "pause"
      [] OTHER        -> "return"

\* Mutant: a 429 re-authenticates instead of pausing.
FollowClass_Reauth429(status) ==
    CASE status = 429 -> "reauth"
      [] status = 401 -> "reauth"
      [] OTHER        -> "return"

\* follow_user, lines 152-163.
FollowClass(status) ==
    CASE status = 429 -> "pause"
      [] status = 401 -> "reauth"
      [] OTHER        -> "return"

\* Python truth value of resolve_handle's result (line 199: if target_did).
Truthy(t) == t # None /\ t[1] # ""

\* Mutant: a failed follow records the status line, not the response body.
FollowRecord_StatusMessage(handle, bsky, response) ==
    IF response.status = 200
    THEN [Twitter_Handle |-> handle, Bluesky_Handle |-> bsky,
          Followed |-> TRUE, Message |-> "Success"]
    ELSE [Twitter_Handle |-> handle, Bluesky_Handle |-> bsky,
          Followed |-> FALSE, Message |-> "HTTP " \o ToString(response.status)]

\* Mutant: the derived handle is stored in the 'Twitter Handle' column.
FollowRecord_WrongSource(handle, bsky, response) ==
    IF response.status = 200
    THEN [Twitter_Handle |-> bsky, Bluesky_Handle |-> bsky,
          Followed |-> TRUE, Message |-> "Success"]
    ELSE [Twitter_Handle |-> bsky, Bluesky_Handle |-> bsky,
          Followed |-> FALSE, Message |-> response.text]

\* main, lines 201-216: the record appended after follow_user returned.
FollowRecord(handle, bsky, response) ==
    IF response.status = 200
    THEN [Twitter_Handle |-> handle, Bluesky_Handle |-> bsky,
          Followed |-> TRUE, Message |-> "Success"]
    ELSE [Twitter_Handle |-> handle, Bluesky_Handle |-> bsky,
          Followed |-> FALSE, Message |-> response.text]

\* Mutant: the derived handle is recorded for an account that was not found.
NotFoundRecord_Derived(handle) ==
    [Twitter_Handle |-> handle, Bluesky_Handle |-> handle \o DOMAIN_SUFFIX,
     Followed |-> FALSE, Message |-> "No matching Bluesky account"]

\* main, lines 217-224: the record appended when target_did is falsy.
NotFoundRecord(handle) ==
    [Twitter_Handle |-> handle, Bluesky_Handle |-> "",
     Followed |-> FALSE, Message |-> "No matching Bluesky account"]

\* Mutant: the test uses a zero-based index (enumerate without start=1).
PeriodicDue_ZeroBased(k) == (k - 1) % REQUEST_LIMIT = 0

\* main, line 230.
PeriodicDue(k) == k % REQUEST_LIMIT = 0

\* ------------------------------------------------------------------- inputs
Lists(S, n) == UNION {[1..k -> S] : k \in 0..n}

Init ==
    /\ pc = "start"
    /\ csv \in {[columns |-> {"Handle"}, rows |-> hs] : hs \in Lists(SourceIds, MaxItems)}
               \cup {[columns |-> {"Name"}, rows |-> <<>>]}
    /\ handles = <<>>
    /\ i = 0
    /\ bluesky_handle = ""
    /\ headers = [Authorization |-> "", ContentType |-> ""]
    /\ session_did = ""
    /\ target_did = None
    /\ follow_payload = NoPayload
    /\ follow_response = NoResponse
    /\ results = <<>>
    /\ sink = [written |-> FALSE, rows |-> <<>>]
    /\ authN = 0
    /\ live = [token |-> "", did |-> ""]
    /\ resps = <<>>
    /\ sends = 0
    /\ pauses = 0
    /\ auths = 0
    /\ lastRequest = NoRequest
    /\ itemFollows = 0
    /\ lastSleep = 0
    /\ delays = 0
    /\ periodicLog = <<>>
    /\ sincePause = 0
    /\ followedDids = {}

\* ------------------------------------------------------------------ actions
\* The remote's side of createSession: a 200 issues the next session.
Issued(status, did) ==
    IF status = 200
    THEN /\ authN' = authN + 1
         /\ live' = [token |-> Token(authN + 1), did |-> did]
    ELSE UNCHANGED <<authN, live>>

\* main, lines 167-173: the initial authenticate and the headers.
AuthenticateInitial ==
    /\ pc = "start"
    /\ \E status \in AuthStatuses, did \in FirstDids :
         LET a == authenticate(status, did, authN) IN
         /\ Issued(status, did)
         /\ IF a.exit
            THEN /\ pc' = "exited"
                 /\ UNCHANGED <<headers, session_did>>
            ELSE /\ pc' = "load"
                 /\ headers' = InitialHeaders(a.access_token)
                 /\ session_did' = a.user_did
    /\ UNCHANGED <<sincePause, followedDids, csv, handles, i, bluesky_handle, target_did, follow_payload,
                   follow_response,
                   results, sink, resps, sends, pauses, auths, lastRequest,
                   itemFollows, lastSleep, delays, periodicLog>>

\* main, line 191 (and 193, 196): the for loop takes the next handle and calls
\* resolve_handle, or ends.  hs: the list iterated, k: the items taken so far.
LoopHead(hs, k) ==
    IF k < Len(hs)
    THEN /\ i' = k + 1
         /\ bluesky_handle' = derive(hs[k + 1])
         /\ pc' = "resolve"
         /\ resps' = <<>>
         /\ sends' = 0
         /\ pauses' = 0
         /\ auths' = 0
         /\ itemFollows' = 0
    ELSE /\ pc' = "save"
         /\ UNCHANGED <<i, bluesky_handle, resps, sends, pauses, auths, itemFollows>>

\* main, lines 176-191: read the CSV, check the column, start the loop.
LoadInput ==
    /\ pc = "load"
    /\ IF "Handle" \notin csv.columns
       THEN /\ pc' = "exited"
            /\ UNCHANGED <<handles, results, i, bluesky_handle, resps, sends,
                           pauses, auths, itemFollows>>
       ELSE /\ handles' = csv.rows
            /\ results' = <<>>
            /\ LoopHead(csv.rows, 0)
    /\ UNCHANGED <<sincePause, followedDids, csv, headers, session_did, target_did, follow_payload,
                   follow_response, sink,
                   authN, live, lastRequest, lastSleep, delays, periodicLog>>

\* resolve_handle, lines 103-122, and main's branch on its result (199, 217-224).
ResolveSend ==
    /\ pc = "resolve"
    /\ \E r \in ResolveResponses :
         /\ r.status \in {429, 401} => Len(resps) < MaxTransient
         /\ r.status = 401 => authN < MaxAuth
         /\ resps' = Append(resps, r)
         /\ CASE ResolveClass(r.status) = "pause" ->
                   /\ pc' = "resolve_pause"
                   /\ UNCHANGED <<target_did, results>>
              [] ResolveClass(r.status) = "reauth" ->
                   /\ pc' = "resolve_reauth"
                   /\ UNCHANGED <<target_did, results>>
              [] OTHER ->
                   LET did == IF ResolveClass(r.status) = "return_did"
                              THEN r.did ELSE None IN
                   /\ target_did' = did
                   /\ IF Truthy(did)
                      THEN /\ pc' = "follow_call"
                           /\ UNCHANGED results
                      ELSE /\ pc' = "delay"
                           /\ results' = Append(results, NotFoundRecord(handles[i]))
    /\ sends' = sends + 1
    /\ lastRequest' = [op |-> "resolve", item |-> i,
                       Authorization |-> headers.Authorization,
                       arg |-> bluesky_handle, repo |-> "",
                       token |-> live.token]
    /\ sincePause' = IF sincePause <= REQUEST_LIMIT THEN sincePause + 1 ELSE sincePause
    /\ UNCHANGED <<followedDids, csv, handles, i, bluesky_handle, headers, session_did,
                   follow_payload, follow_response, sink, authN, live, pauses, auths,
                   itemFollows, lastSleep, delays, periodicLog>>

\* resolve_handle, line 108.
ResolvePause ==
    /\ pc = "resolve_pause"
    /\ pauses' = pauses + 1
    /\ lastSleep' = PAUSE_DURATION
    /\ pc' = "resolve"
    /\ UNCHANGED <<sincePause, followedDids, csv, handles, i, bluesky_handle, headers, session_did,
                   target_did, follow_payload,
                   follow_response, results, sink, authN, live,
                   resps, sends, auths, lastRequest, itemFollows, delays,
                   periodicLog>>

\* The 401 branch of a retry loop (lines 113, 159): authenticate, then store
\* its token in the shared headers.  back: the loop's sending place.
Reauthenticate(back) ==
    /\ auths' = auths + 1
    /\ \E status \in AuthStatuses, did \in OwnDids :
         LET a == authenticate(status, did, authN) IN
         /\ Issued(status, did)
         /\ IF a.exit
            THEN /\ pc' = "exited"
                 /\ UNCHANGED headers
            ELSE /\ pc' = back
                 /\ headers' = ReauthHeaders(headers, a.access_token)
    /\ UNCHANGED <<sincePause, followedDids, csv, handles, i, bluesky_handle, session_did, target_did,
                   follow_payload, follow_response, results, sink, resps, sends, pauses,
                   lastRequest, itemFollows, lastSleep, delays, periodicLog>>

\* resolve_handle, lines 111-113.
ResolveReauth ==
    /\ pc = "resolve_reauth"
    /\ Reauthenticate("resolve")


\* follow_user, lines 136-146: the payload, built once before the loop.
FollowCall ==
    /\ pc = "follow_call"
    /\ follow_payload' = [repo |-> session_did, subject |-> target_did[1]]
    /\ resps' = <<>>
    /\ sends' = 0
    /\ pauses' = 0
    /\ auths' = 0
    /\ pc' = "follow"
    /\ UNCHANGED <<sincePause, followedDids, csv, handles, i, bluesky_handle, headers, session_did,
                   target_did, follow_response, results, sink, authN, live,
                   lastRequest, itemFollows, lastSleep, delays, periodicLog>>

\* Mutant: the record is appended inside the retry loop, once per response.
FollowSend_RecordEveryResponse ==
    /\ pc = "follow"
    /\ \E r \in FollowResponses :
         /\ r.status \in {429, 401} => Len(resps) < MaxTransient
         /\ r.status = 401 => authN < MaxAuth
         /\ resps' = Append(resps, r)
         /\ results' = Append(results, FollowRecord(handles[i], bluesky_handle, r))
         /\ CASE FollowClass(r.status) = "pause" ->
                   /\ pc' = "follow_pause"
                   /\ UNCHANGED <<follow_response, followedDids, follow_payload>>
              [] FollowClass(r.status) = "reauth" ->
                   /\ pc' = "follow_reauth"
                   /\ UNCHANGED <<follow_response, followedDids, follow_payload>>
              [] OTHER ->
                   /\ follow_response' = r
                   /\ pc' = "delay"
                   /\ follow_payload' = NoPayload
                   /\ followedDids' = IF r.status = 200
                                      THEN followedDids \cup {follow_payload.subject}
                                      ELSE followedDids
    /\ sends' = sends + 1
    /\ itemFollows' = itemFollows + 1
    /\ lastRequest' = [op |-> "follow", item |-> i,
                       Authorization |-> headers.Authorization,
                       arg |-> follow_payload.subject, repo |-> follow_payload.repo,
                       token |-> live.token]
    /\ sincePause' = IF sincePause <= REQUEST_LIMIT THEN sincePause + 1 ELSE sincePause
    /\ UNCHANGED <<csv, handles, i, bluesky_handle, headers, session_did,
                   target_did, sink, authN, live, pauses, auths,
                   lastSleep, delays, periodicLog>>

\* follow_user, lines 149-163, and main's record of its result (201-216).
FollowSend ==
    /\ pc = "follow"
    /\ \E r \in FollowResponses :
         /\ r.status \in {429, 401} => Len(resps) < MaxTransient
         /\ r.status = 401 => authN < MaxAuth
         /\ resps' = Append(resps, r)
         /\ CASE FollowClass(r.status) = "pause" ->
                   /\ pc' = "follow_pause"
                   /\ UNCHANGED <<follow_response, results, followedDids, follow_payload>>
              [] FollowClass(r.status) = "reauth" ->
                   /\ pc' = "follow_reauth"
                   /\ UNCHANGED <<follow_response, results, followedDids, follow_payload>>
              [] OTHER ->
                   /\ follow_response' = r
                   /\ results' = Append(results,
                                        FollowRecord(handles[i], bluesky_handle, r))
                   /\ pc' = "delay"
                   /\ follow_payload' = NoPayload
                   /\ followedDids' = IF r.status = 200
                                      THEN followedDids \cup {follow_payload.subject}
                                      ELSE followedDids
    /\ sends' = sends + 1
    /\ itemFollows' = itemFollows + 1
    /\ lastRequest' = [op |-> "follow", item |-> i,
                       Authorization |-> headers.Authorization,
                       arg |-> follow_payload.subject, repo |-> follow_payload.repo,
                       token |-> live.token]
    /\ sincePause' = IF sincePause <= REQUEST_LIMIT THEN sincePause + 1 ELSE sincePause
    /\ UNCHANGED <<csv, handles, i, bluesky_handle, headers, session_did,
                   target_did, sink, authN, live, pauses, auths,
                   lastSleep, delays, periodicLog>>

\* follow_user, line 154.
FollowPause ==
    /\ pc = "follow_pause"
    /\ pauses' = pauses + 1
    /\ lastSleep' = PAUSE_DURATION
    /\ pc' = "follow"
    /\ UNCHANGED <<sincePause, followedDids, csv, handles, i, bluesky_handle, headers, session_did,
                   target_did, follow_payload, follow_response, results, sink,
                   authN, live, resps, sends, auths, lastRequest, itemFollows,
                   delays, periodicLog>>

\* follow_user, lines 157-159.
FollowReauth ==
    /\ pc = "follow_reauth"
    /\ Reauthenticate("follow")

\* Mutant: the inter-item sleep sits inside the 'if target_did:' block.
Delay_InsideIf ==
    /\ pc = "delay"
    /\ IF Truthy(target_did)
       THEN /\ lastSleep' = REQUEST_DELAY
            /\ delays' = delays + 1
       ELSE UNCHANGED <<lastSleep, delays>>
    /\ IF PeriodicDue(i)
       THEN /\ pc' = "periodic"
            /\ UNCHANGED <<i, bluesky_handle, resps, sends, pauses, auths,
                           itemFollows>>
       ELSE LoopHead(handles, i)
    /\ UNCHANGED <<sincePause, followedDids, csv, handles, headers, session_did, target_did,
                   follow_payload, follow_response, results, sink, authN, live,
                   lastRequest, periodicLog>>

\* main, lines 227-230: the inter-item sleep, then the periodic test.
Delay ==
    /\ pc = "delay"
    /\ lastSleep' = REQUEST_DELAY
    /\ delays' = delays + 1
    /\ IF PeriodicDue(i)
       THEN /\ pc' = "periodic"
            /\ UNCHANGED <<i, bluesky_handle, resps, sends, pauses, auths,
                           itemFollows>>
       ELSE LoopHead(handles, i)
    /\ UNCHANGED <<sincePause, followedDids, csv, handles, headers, session_did, target_did,
                   follow_payload, follow_response, results, sink, authN, live,
                   lastRequest, periodicLog>>

\* main, lines 231-232.
PeriodicPause ==
    /\ pc = "periodic"
    /\ lastSleep' = PAUSE_DURATION
    /\ periodicLog' = Append(periodicLog, [i |-> i, seconds |-> PAUSE_DURATION])
    /\ LoopHead(handles, i)
    /\ sincePause' = 0
    /\ UNCHANGED <<followedDids, csv, handles, headers, session_did, target_did,
                   follow_payload, follow_response, results, sink, authN, live,
                   lastRequest, delays>>

\* main, lines 235-237.
Save ==
    /\ pc = "save"
    /\ sink' = [written |-> TRUE, rows |-> results]
    /\ pc' = "done"
    /\ UNCHANGED <<sincePause, followedDids, csv, handles, i, bluesky_handle, headers, session_did,
                   target_did, follow_payload, follow_response, results, authN,
                   live, resps, sends, pauses, auths, lastRequest, itemFollows,
                   lastSleep, delays, periodicLog>>

Next ==
    \/ AuthenticateInitial
    \/ LoadInput
    \/ ResolveSend
    \/ ResolvePause
    \/ ResolveReauth
    \/ FollowCall
    \/ FollowSend
    \/ FollowPause
    \/ FollowReauth
    \/ Delay
    \/ PeriodicPause
    \/ Save

Spec == Init /\ [][Next]_vars

\* The runs over short lists, with the one thread always taking its next
\* step: every sleep ends and every HTTP call returns.  The remote answers one
\* logical request with at most MaxTransient 429/401 responses.
InitLive == Init /\ Len(csv.rows) <= MaxLiveItems
LiveSpec == InitLive /\ [][Next]_vars /\ WF_vars(Next)


\* ------------------------------------------------------------------- claims
Last(s) == s[Len(s)]
Statuses(s) == [j \in 1..Len(s) |-> s[j].status]
Count(s, status) == Cardinality({j \in 1..Len(s) : s[j].status = status})

\* A retry loop has returned and resps is still the history of that loop.
LoopReturned ==
    /\ pc \in {"follow_call", "delay", "periodic", "save", "done"}
    /\ resps # <<>>

\* What the returned loop handed back is what its last response says.
ResultIsFinal ==
    IF lastRequest.op = "resolve"
    THEN target_did = (IF Last(resps).status = 200 THEN Last(resps).did ELSE None)
    ELSE follow_response = Last(resps)

\* C1: a completed run hands the sink exactly one record per input row, and
\* the i-th record's source identifier is the i-th input identifier.
C1_OneRecordPerInputInOrder ==
    pc = "done" =>
        /\ sink.written
        /\ Len(sink.rows) = Len(csv.rows)
        /\ \A k \in 1..Len(csv.rows) : sink.rows[k].Twitter_Handle = csv.rows[k]

\* A completed run over three rows with a repeated identifier, a follow and
\* a re-authentication on the way.
C1_Witness ==
    /\ pc = "done"
    /\ Len(csv.rows) = 3
    /\ csv.rows[1] = csv.rows[3]
    /\ sink.rows[2].Followed
    /\ authN > 1

\* C2: a retry loop answered k 429s and then a response that is neither 429
\* nor 401 has paused k times for PAUSE_DURATION, sent k+1 requests, never
\* called authenticate, and returns what that last response says.
C2_RateLimitRetry ==
    ( /\ LoopReturned
      /\ \A j \in 1..(Len(resps) - 1) : resps[j].status = 429
      /\ Last(resps).status \notin {429, 401} )
    => /\ pauses = Len(resps) - 1
       /\ sends = Len(resps)
       /\ auths = 0
       /\ ResultIsFinal
       /\ (pauses > 0 /\ pc \in {"follow_call", "delay"}) => lastSleep = PAUSE_DURATION

\* follow_user answered [429, 429, 200].
C2_Witness ==
    /\ pc = "delay"
    /\ lastRequest.op = "follow"
    /\ Statuses(resps) = <<429, 429, 200>>
    /\ pauses = 2
    /\ results[i].Followed

\* C3: authenticate is called once per 401 received and for no other
\* response; a loop answered [401, r] has called it once, not paused, sent
\* two requests, and returns what r says.
C3_ReauthOncePer401 ==
    /\ auths + (IF pc \in {"resolve_reauth", "follow_reauth"} THEN 1 ELSE 0)
           = Count(resps, 401)
    /\ ( /\ LoopReturned
         /\ Len(resps) = 2
         /\ resps[1].status = 401 )
       => /\ auths = 1
          /\ pauses = 0
          /\ sends = 2
          /\ ResultIsFinal

\* resolve_handle answered [401, 200 with a did].
C3_Witness ==
    /\ pc = "follow_call"
    /\ Statuses(resps) = <<401, 200>>
    /\ Truthy(target_did)
    /\ auths = 1


\* C4: every resolve or follow request, a retry after a re-authentication
\* included, carries 'Bearer <token>' of the session live when it is sent.
C4_BearerFormOnEveryRequest ==
    lastRequest.op # "none" =>
        lastRequest.Authorization = "Bearer " \o lastRequest.token

\* C5: while no session has been issued no request has been sent, no record
\* exists and nothing is written; a failed initial authentication ends the
\* process there.
C5_NoSessionNoRequests ==
    /\ authN = 0 =>
          /\ pc \in {"start", "exited"}
          /\ lastRequest = NoRequest
          /\ sends = 0
          /\ results = <<>>
          /\ ~sink.written
    /\ pc = "exited" => ~ENABLED Next

\* The initial authentication was refused and the process has exited.
C5_Witness ==
    /\ pc = "exited"
    /\ authN = 0
    /\ Len(csv.rows) > 0

\* C6: a run stopped by a fatal error after some items were processed has
\* handed the records of those items to the sink.
C6_OutputAfterFatalError ==
    (pc = "exited" /\ Len(results) >= 1) =>
        /\ sink.written
        /\ sink.rows = results


\* resolve_handle ended on a status that is neither 200 nor 429 nor 401.
HardMiss ==
    /\ lastRequest.op = "resolve"
    /\ resps # <<>>
    /\ Last(resps).status \notin {200, 429, 401}

\* C7: a lookup whose final response is a hard failure returns None without
\* ending the run: the item gets a not-followed record, no follow request is
\* sent for it, and the loop goes on to the next item (or to the end).
C7_HardFailureIsAMiss ==
    /\ [](HardMiss =>
            /\ pc \in {"delay", "periodic", "save", "done"}
            /\ target_did = None
            /\ Len(results) = i
            /\ results[i].Twitter_Handle = csv.rows[i]
            /\ ~results[i].Followed
            /\ itemFollows = 0)
    /\ [][(HardMiss /\ pc \in {"delay", "periodic"}) =>
            \/ pc = "delay" /\ pc' = "periodic"
            \/ i < Len(handles) /\ pc' = "resolve" /\ i' = i + 1
            \/ i = Len(handles) /\ pc' = "save"]_vars

\* A hard failure after a 429 and a 401, with items left to process.
C7_Witness ==
    /\ pc = "delay"
    /\ Statuses(resps) = <<429, 401, 400>>
    /\ lastRequest.op = "resolve"
    /\ i < Len(handles)

\* C8: the record of an item whose resolution returned an account id holds
\* the source identifier, the source identifier followed by the suffix, and
\* (TRUE, "Success") for a final follow status of 200, else (FALSE, body).
C8_ResolvedItemRecord ==
    (pc = "delay" /\ Truthy(target_did)) =>
        /\ lastRequest.op = "follow"
        /\ Len(results) = i
        /\ results[i] =
             [Twitter_Handle |-> csv.rows[i],
              Bluesky_Handle |-> csv.rows[i] \o DOMAIN_SUFFIX,
              Followed |-> Last(resps).status = 200,
              Message |-> IF Last(resps).status = 200
                          THEN "Success" ELSE Last(resps).text]

\* A followed item, then an item whose follow was refused.
C8_Witness ==
    /\ pc = "delay"
    /\ i = 2
    /\ results[1].Followed
    /\ results[2].Message = "InvalidRequest"
    /\ results[2].Bluesky_Handle = "bob.bsky.social"

\* C9 as stated: the record of an unresolved item carries the message
\* "No matching account".
C9_NotFoundRecordAsStated ==
    (pc = "delay" /\ ~Truthy(target_did)) =>
        /\ results[i] = [Twitter_Handle |-> csv.rows[i], Bluesky_Handle |-> "",
                         Followed |-> FALSE, Message |-> "No matching account"]
        /\ itemFollows = 0

\* C9, amended: the record of an unresolved item is exactly {source, "",
\* FALSE, "No matching Bluesky account"}, and no follow request is sent for it.
C9_NotFoundRecord ==
    (pc = "delay" /\ ~Truthy(target_did)) =>
        /\ Len(results) = i
        /\ results[i] = [Twitter_Handle |-> csv.rows[i], Bluesky_Handle |-> "",
                         Followed |-> FALSE,
                         Message |-> "No matching Bluesky account"]
        /\ itemFollows = 0
        /\ lastRequest.op = "resolve"

\* A 200 without a 'did' for the second row.
C9_Witness ==
    /\ pc = "delay"
    /\ i = 2
    /\ Last(resps) = [status |-> 200, did |-> None]
    /\ target_did = None

\* Items whose periodic test (line 230) has been passed.
Completed ==
    IF pc \in {"save", "done"} THEN Len(handles)
    ELSE IF i = 0 THEN 0 ELSE i - 1

\* C10: the periodic pauses taken are exactly one PAUSE_DURATION pause after
\* each item whose 1-based index is a positive multiple of REQUEST_LIMIT, so
\* a completed run over L items takes L \div REQUEST_LIMIT of them.
C10_PeriodicPauseEveryLimit ==
    /\ periodicLog = [k \in 1..(Completed \div REQUEST_LIMIT) |->
                        [i |-> k * REQUEST_LIMIT, seconds |-> PAUSE_DURATION]]
    /\ pc = "periodic" => (i > 0 /\ i % REQUEST_LIMIT = 0)
    /\ pc = "done" => Len(periodicLog) = Len(csv.rows) \div REQUEST_LIMIT

\* A completed run over REQUEST_LIMIT + 1 items, the pause taken after an
\* unresolved item, and 429 pauses in the last item.
C10_Witness ==
    /\ pc = "done"
    /\ Len(handles) = REQUEST_LIMIT + 1
    /\ Len(periodicLog) = 1
    /\ ~results[REQUEST_LIMIT].Followed
    /\ pauses > 0


\* C11 as stated: a request sent while a session is live carries that
\* session's token, and a follow write names that session's did as 'repo'.
C11_SessionReplacedWholesale ==
    (lastRequest.op # "none" /\ lastRequest.token = live.token) =>
        /\ lastRequest.Authorization
               \in {lastRequest.token, "Bearer " \o lastRequest.token}
        /\ lastRequest.op = "follow" => lastRequest.repo = live.did

\* C11, amended: every request carries the token of the session live when
\* it is sent, and every follow write names the did of the first session as
\* 'repo', whatever did a later session reports.
C11_TokenReplacedDidKept ==
    lastRequest.op # "none" =>
        /\ lastRequest.Authorization
               \in {lastRequest.token, "Bearer " \o lastRequest.token}
        /\ lastRequest.op = "follow" =>
               (lastRequest.repo \in FirstDids /\ lastRequest.repo = session_did)

\* A follow write of the second item, sent after a re-authentication in the
\* first item that reported another did.
C11_Witness ==
    /\ pc = "delay"
    /\ i = 2
    /\ lastRequest.op = "follow"
    /\ authN = 2
    /\ lastRequest.token = "jwt2"
    /\ live.did = "did:me2"
    /\ lastRequest.repo = "did:me"
    /\ auths = 0


\* C12: a retry loop returns only on a response that is neither 429 nor
\* 401 (every earlier response of the loop was one of the two), so the
\* response follow_user hands back and every recorded message come from
\* neither.
C12_TransientNeverSurfaced ==
    /\ LoopReturned =>
          /\ Last(resps).status \notin {429, 401}
          /\ \A j \in 1..(Len(resps) - 1) : resps[j].status \in {429, 401}
    /\ follow_response.status \notin {429, 401}
    /\ \A k \in 1..Len(results) :
          results[k].Message \notin {"RateLimitExceeded", "ExpiredToken"}
    /\ pc \in {"resolve_pause", "resolve_reauth", "follow_pause", "follow_reauth"}
          => (Last(resps).status \in {429, 401} /\ Len(results) = i - 1)

\* follow_user answered [401, 429, 400] and main recorded the 400's body.
C12_Witness ==
    /\ pc = "delay"
    /\ lastRequest.op = "follow"
    /\ Statuses(resps) = <<401, 429, 400>>
    /\ results[i].Message = "InvalidRequest"


\* C13: between the start of the run and the first periodic pause, and
\* between two consecutive periodic pauses, at most REQUEST_LIMIT requests
\* are sent.
C13_AtMostLimitRequestsBetweenPauses ==
    sincePause <= REQUEST_LIMIT

\* Source identifiers beyond those of the input lists, for the injectivity
\* of derive: the empty one, prefixes, and ones that end in the suffix.
DeriveProbe ==
    SourceIds \cup {"", "al", "alice.bsky.social", "bob.bsky", "alice.bsky.social.bsky.social"}

\* C14: the derived identifier depends on the source identifier alone: the
\* one in use for the current row is that row's derivation whatever requests
\* and re-authentications came between, two records have the same derived
\* identifier exactly when they have the same source identifier, and derive
\* maps distinct identifiers to distinct ones (a fact about derive alone,
\* evaluated once, before the run starts).
C14_DeriveDeterministicInjective ==
    /\ (i >= 1 /\ pc # "exited") => bluesky_handle = derive(csv.rows[i])
    /\ \A j, k \in 1..Len(results) :
          (results[j].Bluesky_Handle # "" /\ results[k].Bluesky_Handle # "") =>
              (results[j].Twitter_Handle = results[k].Twitter_Handle
                  <=> results[j].Bluesky_Handle = results[k].Bluesky_Handle)
    /\ pc = "start" => \A a, b \in DeriveProbe : derive(a) = derive(b) => a = b

\* Three followed rows, the first and third with the same identifier, the
\* second with another, and a re-authentication on the way.
C14_Witness ==
    /\ pc = "done"
    /\ Len(results) = 3
    /\ \A k \in 1..3 : results[k].Bluesky_Handle # ""
    /\ results[1].Twitter_Handle = results[3].Twitter_Handle
    /\ results[1].Twitter_Handle # results[2].Twitter_Handle
    /\ authN > 1


InResolve == pc \in {"resolve", "resolve_pause", "resolve_reauth"}
InFollow == pc \in {"follow", "follow_pause", "follow_reauth"}
\* The process was ended by a failed re-authentication.
ReauthFailed == pc = "exited" /\ auths >= 1

\* C15: with the remote answering each logical request with finitely many
\* 429/401 responses, every retry loop returns and the run hands its records
\* to the sink, unless a re-authentication fails; and a loop never gives up:
\* after a 429 or 401 it pauses or re-authenticates and then sends again, and
\* it leaves the loop only on a response that is neither.
C15_RetryLiveness ==
    /\ (InResolve \/ InFollow) ~> (pc \in {"follow_call", "delay"} \/ ReauthFailed)
    /\ (pc = "resolve" /\ i = 1) ~> (sink.written \/ ReauthFailed)
    /\ [][(InResolve /\ ~InResolve' /\ pc' # "exited")
             => Last(resps').status \notin {429, 401}]_vars
    /\ [][(InFollow /\ ~InFollow' /\ pc' # "exited")
             => Last(resps').status \notin {429, 401}]_vars
    /\ [][(pc \in {"resolve", "follow"} /\ Last(resps').status = 429)
             => pc' \in {"resolve_pause", "follow_pause"}]_vars
    /\ [][(pc \in {"resolve", "follow"} /\ Last(resps').status = 401)
             => pc' \in {"resolve_reauth", "follow_reauth"}]_vars
    /\ [][pc = "resolve_pause" => pc' = "resolve"]_vars
    /\ [][pc = "follow_pause" => pc' = "follow"]_vars
    /\ [][pc = "resolve_reauth" => pc' \in {"resolve", "exited"}]_vars
    /\ [][pc = "follow_reauth" => pc' \in {"follow", "exited"}]_vars

\* A completed run of two rows whose last loop paused on a 429 and
\* re-authenticated on a 401 before it returned.
C15_Witness ==
    /\ pc = "done"
    /\ sink.written
    /\ Len(sink.rows) = 2
    /\ pauses = 1
    /\ auths = 1


\* The credential auth carries the token tok, as built at line 171 or as
\* stored at lines 113 and 159.
Carries(auth, tok) == auth \in {tok, "Bearer " \o tok}

\* C16: one session is live and all operations share it: the one headers
\* object always carries the token of the session most recently issued, and
\* every request (a retry, the follow of the same item, the requests of
\* later items) is sent with those headers, never with an earlier token.
\* The headers change only when an authentication succeeds.
C16_OneLiveSessionShared ==
    /\ [](/\ authN >= 1 =>
                /\ live.token = Token(authN)
                /\ Carries(headers.Authorization, live.token)
          /\ lastRequest.op # "none" =>
                /\ Carries(lastRequest.Authorization, lastRequest.token)
                /\ \A n \in 1..authN :
                      Token(n) # lastRequest.token
                          => ~Carries(lastRequest.Authorization, Token(n))
                /\ lastRequest.token = live.token
                      => lastRequest.Authorization = headers.Authorization)
    /\ [][(pc \in {"resolve", "follow"}) =>
             (/\ lastRequest'.token = live.token
              /\ lastRequest'.Authorization = headers.Authorization)]_vars
    /\ [][headers' # headers =>
             (/\ pc \in {"start", "resolve_reauth", "follow_reauth"}
              /\ authN' = authN + 1
              /\ Carries(headers'.Authorization, live'.token))]_vars

\* A follow write of the second row sent with the third session's token,
\* both re-authentications having happened in earlier loops.
C16_Witness ==
    /\ pc = "delay"
    /\ i = 2
    /\ lastRequest.op = "follow"
    /\ authN = 3
    /\ lastRequest.token = "jwt3"
    /\ auths = 0
    /\ Count(resps, 401) = 0

\* C17 as stated: no follow write answered 200 names an account that an
\* earlier follow write answered 200 of the same run named.
C17_NoRefollowWithinRun ==
    [][(pc = "follow" /\ pc' = "delay" /\ follow_response'.status = 200)
          => follow_payload.subject \notin followedDids]_vars

FollowedRows == {k \in 1..Len(results) : results[k].Followed}

\* C17, amended: for every input row at most one follow write is answered
\* 200, and it is the last one sent for the row; the accounts followed are no
\* more than the rows recorded as followed.
C17_OneSuccessPerRow ==
    /\ (lastRequest.op = "follow" /\ lastRequest.item = i) =>
          /\ itemFollows = Len(resps)
          /\ Count(resps, 200) <= 1
          /\ Count(resps, 200) = 1 =>
                (Last(resps).status = 200 /\ pc \notin {"follow", "follow_pause", "follow_reauth"})
    /\ Cardinality(followedDids) <= Cardinality(FollowedRows)
    /\ (followedDids = {}) <=> (FollowedRows = {})

\* Two rows with different identifiers, both followed, both resolved to the
\* same account.
C17_Witness ==
    /\ pc = "done"
    /\ Len(results) = 2
    /\ results[1].Followed
    /\ results[2].Followed
    /\ csv.rows[1] # csv.rows[2]
    /\ followedDids = {"did:1"}


\* C18: the run is one sequence of steps per item.  While item i is in its
\* lookups or its follow writes, exactly i-1 inter-item delays and every
\* periodic pause due before i have elapsed; no follow write of i precedes
\* the end of its lookups; and the one delay of REQUEST_DELAY of item i comes
\* after its last request, whether it resolved or not.  No request of an item
\* is sent before the delay, and the periodic pause when due, of the item
\* before it.  Step by step: the append is followed by the delay, the delay
\* sends nothing and appends nothing, and the loop moves to the next item
\* only from the delay or the periodic pause.
C18_StrictlySequentialPerItem ==
    /\ [](/\ (InResolve \/ InFollow \/ pc = "follow_call") =>
                /\ delays = i - 1
                /\ Len(periodicLog) = (i - 1) \div REQUEST_LIMIT
          /\ (InResolve \/ pc = "follow_call") => itemFollows = 0
          /\ InFollow => (itemFollows = Len(resps) /\ Truthy(target_did))
          /\ pc = "delay" =>
                /\ delays = i - 1
                /\ lastRequest.item = i
                /\ lastRequest.op = (IF Truthy(target_did) THEN "follow" ELSE "resolve")
          /\ pc = "periodic" => (delays = i /\ lastSleep = REQUEST_DELAY)
          /\ pc \in {"save", "done"} =>
                /\ delays = Len(handles)
                /\ (handles # <<>> => lastSleep = (IF PeriodicDue(Len(handles))
                                                   THEN PAUSE_DURATION ELSE REQUEST_DELAY))
          /\ lastRequest.op # "none" =>
                /\ lastRequest.item \in {i - 1, i}
                /\ lastRequest.item = i - 1 => (pc = "resolve" /\ resps = <<>>)
                /\ delays >= lastRequest.item - 1
                /\ Len(periodicLog) >= (lastRequest.item - 1) \div REQUEST_LIMIT
                /\ (lastRequest.op = "resolve" /\ lastRequest.item = i) => itemFollows = 0)
    /\ [][Len(results') # Len(results) => pc' = "delay"]_vars
    /\ [][pc = "delay" =>
             (/\ delays' = delays + 1
              /\ lastSleep' = REQUEST_DELAY
              /\ results' = results
              /\ lastRequest' = lastRequest)]_vars
    /\ [][(pc \in {"resolve", "follow"}) => (lastRequest'.item = i /\ delays' = delays)]_vars
    /\ [][i' # i =>
             (/\ i' = i + 1
              /\ pc \in {"load", "delay", "periodic"}
              /\ pc' = "resolve"
              /\ pc = "delay" => ~PeriodicDue(i))]_vars

\* A completed run over three rows, the second of them unresolved: three
\* delays, one periodic pause, and the last row's follow sent after both.
C18_Witness ==
    /\ pc = "done"
    /\ Len(handles) = 3
    /\ ~results[1].Followed
    /\ results[2].Message = "No matching Bluesky account"
    /\ results[3].Followed
    /\ delays = 3
    /\ Len(periodicLog) = 1
    /\ lastRequest = [op |-> "follow", item |-> 3, Authorization |-> "Bearer jwt1",
                      arg |-> "did:2", repo |-> "did:me", token |-> "jwt1"]

\* The items whose processing has reached the append step.
Appended ==
    IF pc \in {"delay", "periodic", "save", "done"} THEN i
    ELSE IF i = 0 THEN 0 ELSE i - 1

\* C19: the outcome list holds exactly one record for each item that has
\* reached the append step, the k-th for the k-th input row; and every step
\* leaves the list as it is or adds one record at its end.
C19_ResultsAppendOnly ==
    /\ [](/\ Len(results) = Appended
          /\ \A k \in 1..Len(results) : results[k].Twitter_Handle = handles[k])
    /\ [][\/ results' = results
          \/ /\ Len(results') = Len(results) + 1
             /\ SubSeq(results', 1, Len(results)) = results
             /\ pc \in {"resolve", "follow"}
             /\ pc' = "delay"]_vars

\* The third item is in its retries (a 429 pause after a re-authentication)
\* and the two records appended before differ.
C19_Witness ==
    /\ pc = "follow_pause"
    /\ i = 3
    /\ Statuses(resps) = <<401, 429>>
    /\ Len(results) = 2
    /\ results[1].Followed
    /\ ~results[2].Followed
    /\ results[2].Bluesky_Handle = "bob.bsky.social"

=============================================================================
